---- MODULE Spec2Model ----
(***************************************************************************)
(* Model of json_to_yaml.py: the conversion of a survey JSON document into *)
(* a YAML-ready tree (transform and its helpers) and the driver (main)     *)
(* that loads the JSON, transforms it and dumps the YAML.                  *)
(*                                                                         *)
(* A text is a sequence of characters over Chars; "CR" and "LF" stand for  *)
(* '\r' and '\n', "a" for any other character.                             *)
(* A JSON value is a record [kind, text, style]: kind is the JSON type,    *)
(* text the content of a string, style the scalar style of the Python      *)
(* object ("plain" for str, "literal" for LiteralScalarString, "folded"    *)
(* for FoldedScalarString).                                                *)
(* A mapping is a sequence of <<key, value>> pairs with distinct keys, in  *)
(* insertion order, as a Python dict.                                      *)
(***************************************************************************)
EXTENDS Integers, Sequences, FiniteSets, TLC

VARIABLES
    pc,         \* position of the run: "import" (lines 23-28), "main" (133),
                \* "load" (135), "transform" (136), "open" (138), "dump"
                \* (139, 141), "exit"
    args,       \* the parsed arguments: input and output ("" when not given)
    data,       \* the document load_json returned
    out_doc,    \* the mapping transform returned (<<>> before it returns)
    dest,       \* what the output file and standard output hold
    stderr,     \* the diagnostics printed to standard error
    exit_code,  \* the exit code of the process (-1 while it runs)
    done,       \* the steps completed: "read", "load", "transform", "write"
    raised      \* the step whose exception ended the run ("" when none)

vars == <<pc, args, data, out_doc, dest, stderr, exit_code, done, raised>>

\* ---------------------------------------------------------------- bounds
MaxLen == 3
MaxPrompts == 2
MaxNodes == 2

\* ------------------------------------------------------------- constants
SHORT_MAX == 40

CR == "CR"
LF == "LF"
Chars == {"a", CR, LF}

\* ------------------------------------------------------------ str methods
\* c in s
Contains(s, c) == \E i \in 1..Len(s) : s[i] = c

\* s.replace("\r\n", "\n"): left to right, non-overlapping
RECURSIVE replace_crlf(_)
replace_crlf(s) ==
    IF Len(s) = 0 THEN <<>>
    ELSE IF Len(s) >= 2 /\ s[1] = CR /\ s[2] = LF
         THEN <<LF>> \o replace_crlf(SubSeq(s, 3, Len(s)))
         ELSE <<s[1]>> \o replace_crlf(Tail(s))

\* s.replace("\r", "\n")
replace_cr(s) == [i \in 1..Len(s) |-> IF s[i] = CR THEN LF ELSE s[i]]

\* s.rstrip("\n")
RECURSIVE rstrip_lf(_)
rstrip_lf(s) ==
    IF Len(s) > 0 /\ s[Len(s)] = LF
    THEN rstrip_lf(SubSeq(s, 1, Len(s) - 1))
    ELSE s

\* ------------------------------------------------------------- JSON values
Str(t) == [kind |-> "str", text |-> t, style |-> "plain"]
Null == [kind |-> "null", text |-> <<>>, style |-> "plain"]
Num == [kind |-> "num", text |-> <<>>, style |-> "plain"]
List == [kind |-> "list", text |-> <<>>, style |-> "plain"]
Obj == [kind |-> "obj", text |-> <<>>, style |-> "plain"]

\* isinstance(v, str)
IsStr(v) == v.kind = "str"

\* key in d
HasKey(d, k) == \E i \in 1..Len(d) : d[i][1] = k

\* d[k]
Lookup(d, k) == d[CHOOSE i \in 1..Len(d) : d[i][1] = k][2]

\* d.get(k, default)
Get(d, k, default) == IF HasKey(d, k) THEN Lookup(d, k) ELSE default

\* d[k] = v: an existing key keeps its position, a new key is appended
SetItem(d, k, v) ==
    IF HasKey(d, k)
    THEN [i \in 1..Len(d) |-> IF d[i][1] = k THEN <<k, v>> ELSE d[i]]
    ELSE Append(d, <<k, v>>)

\* mutant: the threshold taken as exclusive
is_short_plain_question_exclusive(s) ==
    IF Len(s) = 0 THEN TRUE
    ELSE (~Contains(s, LF)) /\ (Len(s) < SHORT_MAX)

\* ---------------------------------------------------------------- helpers
is_short_plain_question(s) ==
    IF Len(s) = 0 THEN TRUE
    ELSE (~Contains(s, LF)) /\ (Len(s) <= SHORT_MAX)

\* mutant: only one trailing newline removed
as_literal_strip_chomp_one(text) ==
    LET u == replace_cr(replace_crlf(text))
        s == IF Len(u) > 0 /\ u[Len(u)] = LF THEN SubSeq(u, 1, Len(u) - 1) ELSE u
    IN  [kind |-> "str", text |-> s, style |-> "literal"]

as_literal_strip(text) ==
    LET s == rstrip_lf(replace_cr(replace_crlf(text)))
    IN  [kind |-> "str", text |-> s, style |-> "literal"]

\* mutant: line endings unified but trailing newlines kept
as_folded_strip_no_chomp(text) ==
    LET s == replace_cr(replace_crlf(text))
    IN  [kind |-> "str", text |-> s, style |-> "folded"]

as_folded_strip(text) ==
    LET s == rstrip_lf(replace_cr(replace_crlf(text)))
    IN  [kind |-> "str", text |-> s, style |-> "folded"]

\* -------------------------------------------------------------- transform
\* A document or a graph is [kind, fields]: kind "obj" with its mapping, or
\* another JSON type with no fields.
\* A container, the value under "prompts" or "nodes", is [kind, items]:
\* iterating a list yields its elements, a string its characters, an object
\* its keys; null and numbers are not iterable.
\* An element is [kind, fields]: "obj" with its mapping, or "null", "str"
\* (a non-empty string), "emptystr", "emptylist" with no fields.
EmptyList == [kind |-> "list", items |-> <<>>]
EmptyDict == [kind |-> "obj", fields |-> <<>>]

\* mutant: a value that is not iterable taken as the empty list
NotIterable_lenient(c) == FALSE

\* `for x in v` raises TypeError
NotIterable(c) == c.kind \in {"null", "num"}

\* p.get(...) raises unless p is a dict; text.replace raises unless a str
PromptRaises(p) ==
    \/ p.kind # "obj"
    \/ ~IsStr(Get(p.fields, "prompt", Str(<<>>)))

\* mutant: the prompt left a plain string
PromptOut_unstyled(p) ==
    << <<"nodeId", Get(p.fields, "nodeId", Null)>>,
       <<"prompt", Get(p.fields, "prompt", Str(<<>>))>> >>

\* one iteration of the prompts loop
PromptOut(p) ==
    LET node_id == Get(p.fields, "nodeId", Null)
        prompt_text == Get(p.fields, "prompt", Str(<<>>))
    IN  << <<"nodeId", node_id>>,
           <<"prompt", as_literal_strip(prompt_text.text)>> >>

\* dict(n) raises TypeError on None, ValueError on a non-empty string
NodeRaises(n) == n.kind \notin {"obj", "emptystr", "emptylist"}

\* mutant: a missing question defaults to ""
NodeOut_default_empty(n) ==
    LET n2 == IF n.kind = "obj" THEN n.fields ELSE <<>>
        q == Get(n2, "question", Str(<<>>))
    IN  IF IsStr(q)
        THEN IF Len(q.text) = 0
             THEN SetItem(n2, "question", Str(<<>>))
             ELSE IF is_short_plain_question(q.text)
                  THEN SetItem(n2, "question", q)
                  ELSE SetItem(n2, "question", as_folded_strip(q.text))
        ELSE n2

\* one iteration of the nodes loop
NodeOut(n) ==
    LET n2 == IF n.kind = "obj" THEN n.fields ELSE <<>>
        q == Get(n2, "question", Null)
    IN  IF IsStr(q)
        THEN IF Len(q.text) = 0
             THEN SetItem(n2, "question", Str(<<>>))
             ELSE IF is_short_plain_question(q.text)
                  THEN SetItem(n2, "question", q)
                  ELSE SetItem(n2, "question", as_folded_strip(q.text))
        ELSE n2

\* g_in = data.get("graph", {})
GraphIn(d) == Get(d.fields, "graph", EmptyDict)

\* g_in.get("nodes", [])
NodesIn(g_in) == Get(g_in.fields, "nodes", EmptyList)

\* data.get("prompts", [])
PromptsIn(d) == Get(d.fields, "prompts", EmptyList)

\* the graph part of transform raises
GraphRaises(g_in) ==
    \/ g_in.kind # "obj"
    \/ NotIterable(NodesIn(g_in))
    \/ \E i \in 1..Len(NodesIn(g_in).items) : NodeRaises(NodesIn(g_in).items[i])

\* mutant: startId always emitted
GraphOut_always_startId(g_in) ==
    LET g0 == SetItem(<<>>, "startId", Get(g_in.fields, "startId", Null))
        nodes_out ==
            [i \in 1..Len(NodesIn(g_in).items) |-> NodeOut(NodesIn(g_in).items[i])]
    IN  SetItem(g0, "nodes", nodes_out)

\* the graph part of transform: g_out
GraphOut(g_in) ==
    LET g0 == IF HasKey(g_in.fields, "startId")
              THEN SetItem(<<>>, "startId", Lookup(g_in.fields, "startId"))
              ELSE <<>>
        nodes_out ==
            [i \in 1..Len(NodesIn(g_in).items) |-> NodeOut(NodesIn(g_in).items[i])]
    IN  SetItem(g0, "nodes", nodes_out)

\* transform(data) raises
TransformRaises(d) ==
    \/ d.kind # "obj"
    \/ NotIterable(PromptsIn(d))
    \/ \E i \in 1..Len(PromptsIn(d).items) : PromptRaises(PromptsIn(d).items[i])
    \/ GraphRaises(GraphIn(d))

\* the value transform(data) returns
transform(d) ==
    LET prompts_out ==
            [i \in 1..Len(PromptsIn(d).items) |-> PromptOut(PromptsIn(d).items[i])]
        out1 == SetItem(<<>>, "prompts", prompts_out)
    IN  SetItem(out1, "graph", GraphOut(GraphIn(d)))

\* ------------------------------------------------------------------ inputs
Pad(k) == [i \in 1..k |-> "a"]

SeqsUpTo(S, n) == UNION {[1..k -> S] : k \in 0..n}

\* texts around the length threshold and short texts, over all of Chars
Texts ==
    {Pad(k) \o t : k \in {0, SHORT_MAX - 2}, t \in SeqsUpTo(Chars, MaxLen)}

SampleTexts == {<<>>, <<"a">>, <<"a", CR, LF, "a", LF>>}

Elem(kind) == [kind |-> kind, fields |-> <<>>]
ObjOf(fields) == [kind |-> "obj", fields |-> fields]
Items(kind, items) == [kind |-> kind, items |-> items]

NodeIdOpts == {<<>>, << <<"nodeId", Null>> >>, << <<"nodeId", Str(<<"a">>)>> >>}

PromptOpts ==
    {<<>>, << <<"prompt", Null>> >>}
        \cup {<< <<"prompt", Str(t)>> >> : t \in SampleTexts}

PromptElems ==
    {ObjOf(n \o p) : n \in NodeIdOpts, p \in PromptOpts}
        \cup {ObjOf(<< <<"prompt", Str(<<"a", LF>>)>>, <<"nodeId", Num>> >>),
              ObjOf(<< <<"extra", Num>>, <<"prompt", Str(<<"a">>)>> >>),
              Elem("null")}

QuestionOpts ==
    {<< <<"question", v>> >> :
        v \in {Null, Num} \cup {Str(t) : t \in SampleTexts}}

IdOpt == << <<"id", Str(<<"a">>)>> >>

NodeElems ==
    {ObjOf(<<>>), ObjOf(IdOpt), Elem("null"), Elem("emptylist"),
     ObjOf(<< <<"options", List>>, <<"question", Str(<<LF, "a">>)>>,
              <<"next", Obj>> >>)}
        \cup {ObjOf(q) : q \in QuestionOpts}
        \cup {ObjOf(IdOpt \o q) : q \in QuestionOpts}
        \cup {ObjOf(q \o IdOpt) : q \in QuestionOpts}

\* values under "prompts" or "nodes" that are not lists
NonLists ==
    {Items("null", <<>>), Items("num", <<>>),
     Items("str", <<>>), Items("str", <<Elem("str")>>),
     Items("obj", <<>>), Items("obj", <<Elem("str")>>),
     Items("obj", <<Elem("emptystr")>>)}

PromptContainers ==
    NonLists \cup {Items("list", s) : s \in SeqsUpTo(PromptElems, MaxPrompts)}

NodeContainers ==
    NonLists \cup {Items("list", s) : s \in SeqsUpTo(NodeElems, MaxNodes)}

OneNode(q) == Items("list", <<ObjOf(<< <<"id", Num>>, <<"question", q>> >>)>>)

GoodGraph ==
    ObjOf(<< <<"startId", Str(<<"a">>)>>, <<"nodes", OneNode(Str(<<"a">>))>> >>)

PromptDocs ==
    {ObjOf(<< <<"prompts", c>>, <<"graph", GoodGraph>> >>) :
        c \in PromptContainers}

NodeDocs ==
    {ObjOf(<< <<"graph", ObjOf(<< <<"nodes", c>> >>)>> >>) :
        c \in NodeContainers}

StartIdOpts ==
    {<<>>} \cup {<< <<"startId", v>> >> : v \in {Null, Num, Str(<<"a">>)}}

GraphShapes ==
    {ObjOf(s) : s \in StartIdOpts}
        \cup {ObjOf(s \o << <<"nodes", OneNode(Str(<<"a">>))>> >>) : s \in StartIdOpts}
        \cup {ObjOf(<< <<"nodes", OneNode(Null)>> >> \o s) : s \in StartIdOpts}
        \cup {ObjOf(<< <<"title", Str(<<"a">>)>> >> \o s) : s \in StartIdOpts}
        \cup {Elem("null"), Elem("num"), Elem("str"), Elem("emptylist")}

ShapeDocs ==
    {ObjOf(<<>>), Elem("emptylist"), Elem("null"),
     ObjOf(<< <<"prompts", EmptyList>> >>)}
        \cup {ObjOf(<< <<"graph", g>> >>) : g \in GraphShapes}
        \cup {ObjOf(<< <<"title", Str(<<"a">>)>>, <<"graph", g>>,
                       <<"prompts", Items("list", <<ObjOf(<<>>)>>)>> >>) :
                g \in GraphShapes}

TextDocs ==
    {ObjOf(<< <<"prompts", Items("list", <<ObjOf(<< <<"prompt", Str(t)>> >>)>>)>> >>) :
        t \in Texts}
        \cup {ObjOf(<< <<"graph", ObjOf(<< <<"nodes", OneNode(Str(t))>> >>)>> >>) :
                t \in Texts}
        \cup {ObjOf(<< <<"graph", ObjOf(<< <<"nodes", OneNode(v)>> >>)>> >>) :
                v \in {Null, Num, List, Obj}}

\* a question of exactly SHORT_MAX characters next to one of SHORT_MAX + 1
BoundaryDoc ==
    ObjOf(<< <<"graph", ObjOf(<< <<"nodes",
        Items("list", <<ObjOf(<< <<"question", Str(Pad(SHORT_MAX))>> >>),
                        ObjOf(<< <<"question", Str(Pad(SHORT_MAX + 1))>> >>)>>)>> >>)>> >>)

Docs == PromptDocs \cup NodeDocs \cup ShapeDocs \cup TextDocs \cup {BoundaryDoc}

ArgInputs == {"-", "stdin", "in.json"}
ArgOutputs == {"", "out.yaml"}

\* ------------------------------------------------------------------ driver
NoData == Elem("none")
NoArgs == [input |-> "", output |-> ""]
Previous == <<"previous content">>
DepMessage == "Error: ruamel.yaml is required. Install with: pip install ruamel.yaml"
FailMessage == "Conversion failed: "

Init ==
    /\ pc = "import"
    /\ args = NoArgs
    /\ data = NoData
    /\ out_doc = <<>>
    /\ dest = [file |-> Previous, stdout |-> <<>>]
    /\ stderr = <<>>
    /\ exit_code = -1
    /\ done = {}
    /\ raised = ""

\* from ruamel.yaml import ... succeeds
ImportOk ==
    /\ pc = "import"
    /\ pc' = "main"
    /\ UNCHANGED <<args, data, out_doc, dest, stderr, exit_code, done, raised>>

\* the import raises: print the diagnostic, sys.exit(2)
ImportFails ==
    /\ pc = "import"
    /\ raised' = "import"
    /\ stderr' = Append(stderr, DepMessage)
    /\ exit_code' = 2
    /\ pc' = "exit"
    /\ UNCHANGED <<args, data, out_doc, dest, done>>

\* args = parse_args(argv)
ParseArgs ==
    /\ pc = "main"
    /\ \E i \in ArgInputs, o \in ArgOutputs :
          args' = [input |-> i, output |-> o]
    /\ pc' = "load"
    /\ UNCHANGED <<data, out_doc, dest, stderr, exit_code, done, raised>>

\* mutant: the failure reported but the exit code left 0
Fail_exit_zero(step) ==
    /\ raised' = step
    /\ stderr' = Append(stderr, FailMessage)
    /\ exit_code' = 0
    /\ pc' = "exit"

\* except Exception as e: print the diagnostic, sys.exit(1)
Fail(step) ==
    /\ raised' = step
    /\ stderr' = Append(stderr, FailMessage)
    /\ exit_code' = 1
    /\ pc' = "exit"

\* data = load_json(args.input)
LoadOk ==
    /\ pc = "load"
    /\ \E doc \in Docs : data' = doc
    /\ done' = done \cup {"read", "load"}
    /\ pc' = "transform"
    /\ UNCHANGED <<args, out_doc, dest, stderr, exit_code, raised>>

\* open(path) raises: nothing is read (standard input is already open)
LoadOpenFails ==
    /\ pc = "load"
    /\ args.input \notin {"-", "stdin"}
    /\ Fail("read")
    /\ UNCHANGED <<args, data, out_doc, dest, done>>

\* json.load raises on malformed JSON
LoadParseFails ==
    /\ pc = "load"
    /\ done' = done \cup {"read"}
    /\ Fail("parse")
    /\ UNCHANGED <<args, data, out_doc, dest>>

\* out_doc = transform(data)
TransformOk ==
    /\ pc = "transform"
    /\ ~TransformRaises(data)
    /\ out_doc' = transform(data)
    /\ done' = done \cup {"transform"}
    /\ pc' = IF args.output # "" THEN "open" ELSE "dump"
    /\ UNCHANGED <<args, data, dest, stderr, exit_code, raised>>

TransformFails ==
    /\ pc = "transform"
    /\ TransformRaises(data)
    /\ Fail("transform")
    /\ UNCHANGED <<args, data, out_doc, dest, done>>

\* open(args.output, "w") truncates the destination
OpenOk ==
    /\ pc = "open"
    /\ dest' = [dest EXCEPT !.file = <<>>]
    /\ pc' = "dump"
    /\ UNCHANGED <<args, data, out_doc, stderr, exit_code, done, raised>>

OpenFails ==
    /\ pc = "open"
    /\ Fail("open")
    /\ UNCHANGED <<args, data, out_doc, dest, done>>

\* what the destination holds of the document: the top-level sections emitted
Written == IF args.output # "" THEN dest.file ELSE dest.stdout

FullDocument == [i \in 1..Len(out_doc) |-> out_doc[i][1]]

\* yaml.dump emits the next top-level section to the stream
DumpSection ==
    /\ pc = "dump"
    /\ Len(Written) < Len(out_doc)
    /\ LET section == out_doc[Len(Written) + 1][1]
       IN  dest' = IF args.output # ""
                   THEN [dest EXCEPT !.file = Append(@, section)]
                   ELSE [dest EXCEPT !.stdout = Append(@, section)]
    /\ UNCHANGED <<pc, args, data, out_doc, stderr, exit_code, done, raised>>

\* a write to the stream raises part-way through the emission
DumpFails ==
    /\ pc = "dump"
    /\ Fail("write")
    /\ UNCHANGED <<args, data, out_doc, dest, done>>

\* dump_yaml returns, the file is closed, main returns
DumpDone ==
    /\ pc = "dump"
    /\ Len(Written) = Len(out_doc)
    /\ done' = done \cup {"write"}
    /\ exit_code' = 0
    /\ pc' = "exit"
    /\ UNCHANGED <<args, data, out_doc, dest, stderr, raised>>

Next ==
    \/ ImportOk
    \/ ImportFails
    \/ ParseArgs
    \/ LoadOk
    \/ LoadOpenFails
    \/ LoadParseFails
    \/ TransformOk
    \/ TransformFails
    \/ OpenOk
    \/ OpenFails
    \/ DumpSection
    \/ DumpFails
    \/ DumpDone

Spec == Init /\ [][Next]_vars

\* ------------------------------------------------- vocabulary of the claims
\* the text with every CRLF and every CR turned into one LF
RECURSIVE UnifyLineEndings(_, _)
UnifyLineEndings(t, n) ==
    IF n = 0 THEN <<>>
    ELSE UnifyLineEndings(t, n - 1) \o
            (IF t[n] = LF /\ n > 1 /\ t[n - 1] = CR THEN <<>>
             ELSE IF t[n] = CR THEN <<LF>> ELSE <<t[n]>>)

\* the longest prefix that does not end with LF
WithoutTrailingLF(s) ==
    LET k == CHOOSE k \in 0..Len(s) :
                /\ (k = 0 \/ s[k] # LF)
                /\ \A j \in (k + 1)..Len(s) : s[j] = LF
    IN  SubSeq(s, 1, k)

NormalizedText(t) == WithoutTrailingLF(UnifyLineEndings(t, Len(t)))

Styled(t, style) == [kind |-> "str", text |-> t, style |-> style]
Keys(m) == [i \in 1..Len(m) |-> m[i][1]]

\* transform returned: out_doc is its result on data
Transformed == "transform" \in done
\* transform was called and returned or raised
TransformAttempted == "load" \in done /\ pc # "transform"

InPrompts == IF HasKey(data.fields, "prompts")
             THEN Lookup(data.fields, "prompts") ELSE EmptyList
InGraph == IF HasKey(data.fields, "graph")
           THEN Lookup(data.fields, "graph") ELSE EmptyDict
InNodes == IF HasKey(InGraph.fields, "nodes")
           THEN Lookup(InGraph.fields, "nodes") ELSE EmptyList
OutPrompts == Lookup(out_doc, "prompts")
OutGraph == Lookup(out_doc, "graph")
OutNodes == Lookup(OutGraph, "nodes")

HasStrQuestion(n) ==
    /\ n.kind = "obj"
    /\ HasKey(n.fields, "question")
    /\ Lookup(n.fields, "question").kind = "str"

\* C1: every string question q yields "" plain when empty, q unchanged and
\* plain when it has no newline and at most 40 characters, and otherwise the
\* normalized text styled folded
C1_QuestionClassification ==
    Transformed =>
        /\ Len(OutNodes) = Len(InNodes.items)
        /\ \A i \in 1..Len(InNodes.items) :
              HasStrQuestion(InNodes.items[i]) =>
                  LET q == Lookup(InNodes.items[i].fields, "question").text
                      o == Lookup(OutNodes[i], "question")
                  IN  IF Len(q) = 0 THEN o = Styled(<<>>, "plain")
                      ELSE IF ~Contains(q, LF) /\ Len(q) <= 40
                           THEN o = Styled(q, "plain")
                           ELSE o = Styled(NormalizedText(q), "folded")

C1_Witness ==
    /\ Transformed
    /\ Len(OutNodes) = 2
    /\ HasStrQuestion(InNodes.items[1])
    /\ HasStrQuestion(InNodes.items[2])
    /\ Lookup(InNodes.items[1].fields, "question").text = Pad(40)
    /\ Lookup(InNodes.items[2].fields, "question").text = Pad(41)
    /\ Lookup(OutNodes[1], "question").style = "plain"
    /\ Lookup(OutNodes[2], "question").style = "folded"

NoCrNoTrailingLf(t) ==
    /\ ~Contains(t, CR)
    /\ (Len(t) = 0 \/ t[Len(t)] # LF)

\* C2: the text a literal or folded scalar carries has no CR, does not end
\* with LF, and normalizing it again leaves it unchanged
C2_NormalizeProperties ==
    Transformed =>
        /\ \A i \in 1..Len(OutPrompts) :
              LET t == Lookup(OutPrompts[i], "prompt").text
              IN  NoCrNoTrailingLf(t) /\ as_literal_strip(t).text = t
        /\ \A i \in 1..Len(OutNodes) :
              (/\ HasKey(OutNodes[i], "question")
               /\ Lookup(OutNodes[i], "question").style = "folded") =>
                  LET t == Lookup(OutNodes[i], "question").text
                  IN  NoCrNoTrailingLf(t) /\ as_folded_strip(t).text = t

C2_Witness ==
    /\ Transformed
    /\ Len(OutPrompts) = 1
    /\ HasKey(InPrompts.items[1].fields, "prompt")
    /\ LET t == Lookup(InPrompts.items[1].fields, "prompt").text
       IN  /\ Len(t) = 3
           /\ t[1] = CR /\ t[2] = LF /\ t[3] = LF
           /\ Lookup(OutPrompts[1], "prompt").text = <<>>

\* C3: a list of prompt objects yields a list of the same length and order
\* whose i-th element is exactly nodeId (unchanged, null when absent) then
\* prompt, a literal scalar of the normalized prompt text ("" when absent)
C3_PromptPass ==
    (Transformed /\ InPrompts.kind = "list") =>
        /\ Len(OutPrompts) = Len(InPrompts.items)
        /\ \A i \in 1..Len(InPrompts.items) :
              LET p == InPrompts.items[i].fields
                  id == IF HasKey(p, "nodeId") THEN Lookup(p, "nodeId") ELSE Null
                  t == IF HasKey(p, "prompt") THEN Lookup(p, "prompt").text ELSE <<>>
              IN  OutPrompts[i] =
                      << <<"nodeId", id>>,
                         <<"prompt", Styled(NormalizedText(t), "literal")>> >>

C3_Witness ==
    /\ Transformed
    /\ InPrompts.kind = "list"
    /\ Len(OutPrompts) = 2
    /\ ~HasKey(InPrompts.items[1].fields, "nodeId")
    /\ HasKey(InPrompts.items[1].fields, "prompt")
    /\ HasKey(InPrompts.items[2].fields, "nodeId")
    /\ ~HasKey(InPrompts.items[2].fields, "prompt")
    /\ Lookup(OutPrompts[1], "nodeId") = Null
    /\ Lookup(OutPrompts[2], "prompt") = Styled(<<>>, "literal")

NotAList(fields, key) == ~HasKey(fields, key) \/ Lookup(fields, key).kind # "list"

\* a list whose elements transform accepts
ListOfObjects(c) ==
    /\ c.kind = "list"
    /\ \A i \in 1..Len(c.items) :
          /\ c.items[i].kind = "obj"
          /\ HasKey(c.items[i].fields, "prompt") =>
                Lookup(c.items[i].fields, "prompt").kind = "str"

\* C4 as claimed: a missing or non-list `prompts` or `nodes` never makes
\* transform fail and gives an empty output list
C4_AsClaimed ==
    (/\ TransformAttempted
     /\ data.kind = "obj"
     /\ InGraph.kind = "obj"
     /\ NotAList(data.fields, "prompts") \/ ListOfObjects(InPrompts)
     /\ NotAList(InGraph.fields, "nodes") \/ ListOfObjects(InNodes)) =>
        /\ Transformed
        /\ NotAList(data.fields, "prompts") => OutPrompts = <<>>
        /\ NotAList(InGraph.fields, "nodes") => OutNodes = <<>>

\* iterates as empty: a missing key (the default []), "" or {}
IteratesEmpty(c) == c.kind \in {"list", "str", "obj"} /\ c.items = <<>>

\* null, a number, a non-empty string, an object with a non-empty key
RejectedContainer(c) ==
    \/ c.kind \in {"null", "num"}
    \/ c.kind \in {"str", "obj"} /\ \E i \in 1..Len(c.items) : c.items[i].kind = "str"

\* C4 as amended: a missing `prompts` or `nodes` is the empty list; null, a
\* number, a non-empty string or an object with a non-empty key makes
\* transform raise; "" and {} iterate as empty and give an empty output list;
\* an object whose only key is "" raises as `prompts` and gives one empty
\* node as `nodes`
C4_NonListContainers ==
    (TransformAttempted /\ data.kind = "obj" /\ InGraph.kind = "obj") =>
        /\ (RejectedContainer(InPrompts) \/ RejectedContainer(InNodes)) =>
              (raised = "transform" /\ ~Transformed /\ exit_code = 1)
        /\ (IteratesEmpty(InPrompts) /\ IteratesEmpty(InNodes)) => Transformed
        /\ (Transformed /\ IteratesEmpty(InPrompts)) => OutPrompts = <<>>
        /\ (Transformed /\ IteratesEmpty(InNodes)) => OutNodes = <<>>
        /\ (InPrompts.kind = "obj" /\ Len(InPrompts.items) > 0) =>
              raised = "transform"
        /\ (/\ InNodes.kind = "obj"
            /\ InNodes.items = <<Elem("emptystr")>>
            /\ IteratesEmpty(InPrompts)) =>
              (Transformed /\ OutNodes = << <<>> >>)

C4_Witness ==
    /\ TransformAttempted
    /\ data.kind = "obj"
    /\ HasKey(data.fields, "prompts")
    /\ InPrompts.kind = "null"
    /\ ~RejectedContainer(InNodes)
    /\ raised = "transform"

\* C5: the output has exactly the keys prompts then graph; the output graph
\* always has nodes (empty when the input has none) and has startId exactly
\* when the input graph has it, with the same value
C5_DocumentShape ==
    Transformed =>
        /\ Keys(out_doc) = <<"prompts", "graph">>
        /\ Keys(OutGraph) \in {<<"nodes">>, <<"startId", "nodes">>}
        /\ ~HasKey(InGraph.fields, "nodes") => OutNodes = <<>>
        /\ HasKey(OutGraph, "startId") <=> HasKey(InGraph.fields, "startId")
        /\ HasKey(InGraph.fields, "startId") =>
              Lookup(OutGraph, "startId") = Lookup(InGraph.fields, "startId")

C5_Witness ==
    /\ Transformed
    /\ HasKey(data.fields, "title")
    /\ ~HasKey(InGraph.fields, "nodes")
    /\ HasKey(InGraph.fields, "startId")
    /\ Lookup(InGraph.fields, "startId") = Null
    /\ Lookup(OutGraph, "startId") = Null
    /\ Keys(out_doc) = <<"prompts", "graph">>

\* C6: an output node has the keys of the input node in the same order, every
\* key but question keeps its value, and so does a question that is not a
\* string
C6_NodeFrame ==
    Transformed =>
        /\ Len(OutNodes) = Len(InNodes.items)
        /\ \A i \in 1..Len(InNodes.items) :
              InNodes.items[i].kind = "obj" =>
                  LET n == InNodes.items[i].fields
                  IN  /\ Keys(OutNodes[i]) = Keys(n)
                      /\ \A j \in 1..Len(n) :
                            (n[j][1] # "question" \/ n[j][2].kind # "str") =>
                                OutNodes[i][j] = n[j]

C6_Witness ==
    /\ Transformed
    /\ Len(OutNodes) = 2
    /\ InNodes.items[1].kind = "obj"
    /\ InNodes.items[2].kind = "obj"
    /\ Keys(InNodes.items[1].fields) = <<"question", "id">>
    /\ Lookup(OutNodes[1], "question").style = "folded"
    /\ Keys(InNodes.items[2].fields) = <<"id">>
    /\ OutNodes[2] = InNodes.items[2].fields

C8_AllOrNothing ==
    pc = "exit" =>
        IF args.output # ""
        THEN dest.file = Previous \/ (Transformed /\ dest.file = FullDocument)
        ELSE dest.stdout = <<>> \/ (Transformed /\ dest.stdout = FullDocument)

\* C9 as claimed: every prompt and every non-empty string question carries
\* the normalized original text, whether the question is plain or folded
C9_AsClaimed ==
    Transformed =>
        /\ \A i \in 1..Len(OutPrompts) :
              LET p == InPrompts.items[i].fields
                  t == IF HasKey(p, "prompt") THEN Lookup(p, "prompt").text ELSE <<>>
              IN  Lookup(OutPrompts[i], "prompt").text = NormalizedText(t)
        /\ \A i \in 1..Len(OutNodes) :
              (/\ HasStrQuestion(InNodes.items[i])
               /\ Len(Lookup(InNodes.items[i].fields, "question").text) > 0) =>
                  Lookup(OutNodes[i], "question").text =
                      NormalizedText(Lookup(InNodes.items[i].fields, "question").text)

\* C9 as amended: every prompt and every question styled folded carries the
\* normalized original text; a non-empty question kept plain carries the
\* original text unchanged, which is the normalized text unless it has a CR
C9_CarriedText ==
    Transformed =>
        /\ Len(OutPrompts) = Len(InPrompts.items)
        /\ Len(OutNodes) = Len(InNodes.items)
        /\ \A i \in 1..Len(InPrompts.items) :
              LET p == InPrompts.items[i].fields
                  t == IF HasKey(p, "prompt") THEN Lookup(p, "prompt").text ELSE <<>>
              IN  Lookup(OutPrompts[i], "prompt").text = NormalizedText(t)
        /\ \A i \in 1..Len(InNodes.items) :
              (/\ HasStrQuestion(InNodes.items[i])
               /\ Len(Lookup(InNodes.items[i].fields, "question").text) > 0) =>
                  LET q == Lookup(InNodes.items[i].fields, "question").text
                      o == Lookup(OutNodes[i], "question")
                  IN  IF o.style = "folded"
                      THEN o.text = NormalizedText(q)
                      ELSE /\ o.style = "plain"
                           /\ o.text = q
                           /\ Contains(q, CR) \/ o.text = NormalizedText(q)

C9_Witness ==
    /\ Transformed
    /\ Len(OutNodes) = 1
    /\ HasStrQuestion(InNodes.items[1])
    /\ LET q == Lookup(InNodes.items[1].fields, "question").text
           o == Lookup(OutNodes[1], "question")
       IN  /\ q = <<"a", CR, "a">>
           /\ o = Styled(q, "plain")
           /\ NormalizedText(q) = <<"a", LF, "a">>

\* C10: a question styled folded carries a text that is not short-plain:
\* non-empty and either containing LF or longer than 40 characters
C10_FoldedTextNotShortPlain ==
    Transformed =>
        \A i \in 1..Len(OutNodes) :
            (/\ HasKey(OutNodes[i], "question")
             /\ Lookup(OutNodes[i], "question").style = "folded") =>
                LET t == Lookup(OutNodes[i], "question").text
                IN  Len(t) > 0 /\ (Contains(t, LF) \/ Len(t) > 40)

====
